---------------------------- MODULE Spec2Model ----------------------------
(***************************************************************************)
(* A model of mcp-server-post-x: the tool surface of src/server.rs (three  *)
(* operations over a lock-guarded username cache) and the client of        *)
(* src/api.rs (text and media validation, single posts, reply chains, the  *)
(* OAuth 1.0a signer and its percent-encoding).                            *)
(*                                                                         *)
(* Option<T> is a sequence of length at most one: None is <<>>, Some(x) is *)
(* <<x>>.  Strings the code inspects byte by byte are sequences of bytes.  *)
(***************************************************************************)
EXTENDS Integers, Sequences, FiniteSets, TLC

None == <<>>
Some(x) == <<x>>

(***************************************************************************)
(* Program constants.                                                      *)
(***************************************************************************)
MAX_MEDIA_SIZE == 5242880
MAX_TWEET_LENGTH == 280
MAX_THREAD_LENGTH == 25
ServerMaxThread == 25

(***************************************************************************)
(* Bounds of the model.                                                    *)
(***************************************************************************)
\* The tasks of SpecConc, one tool call each.
NumTasks == 2
\* Every chain of at most this many items over ThreadItems is an input.
MaxThread == 3

Tasks == 1..NumTasks

(***************************************************************************)
(* Inputs: texts are sequences of Unicode scalar values, image paths are   *)
(* files as the filesystem shows them.                                     *)
(***************************************************************************)
TextOk == <<104, 105>>
TextEmpty == <<>>
TextBlank == <<32, 9, 10>>

FileOk == [path |-> "ok.png", exists |-> TRUE, len |-> 1024, ext |-> "png",
   meta |-> TRUE, readable |-> TRUE]
FileMissing == [path |-> "gone.png", exists |-> FALSE, len |-> 0, ext |-> "png",
   meta |-> FALSE, readable |-> FALSE]
FileBig == [path |-> "big.jpg", exists |-> TRUE, len |-> MAX_MEDIA_SIZE + 1, ext |-> "jpg",
   meta |-> TRUE, readable |-> TRUE]
FileBmp == [path |-> "pic.bmp", exists |-> TRUE, len |-> 2048, ext |-> "bmp",
   meta |-> TRUE, readable |-> TRUE]
FileTxt == [path |-> "notes.txt", exists |-> TRUE, len |-> 10, ext |-> "txt",
   meta |-> TRUE, readable |-> TRUE]
FileNoExt == [path |-> "picture", exists |-> TRUE, len |-> 10, ext |-> "",
   meta |-> TRUE, readable |-> TRUE]
FileUpper == [path |-> "OK.PNG", exists |-> TRUE, len |-> MAX_MEDIA_SIZE, ext |-> "PNG",
   meta |-> TRUE, readable |-> TRUE]
FileMissingBmp == [path |-> "gone.bmp", exists |-> FALSE, len |-> 0, ext |-> "bmp",
   meta |-> FALSE, readable |-> FALSE]
FileBigBmp == [path |-> "big.bmp", exists |-> TRUE, len |-> MAX_MEDIA_SIZE + 1, ext |-> "bmp",
   meta |-> TRUE, readable |-> TRUE]

\* Every file the checks of upload_media tell apart: missing; gone between
\* exists() and metadata(); or there with its metadata, at, under or over
\* the size limit, of each extension, and readable or not (a directory).
FileExts == {"png", "jpg", "jpeg", "gif", "webp", "bmp", "PNG", ""}

Files ==
  { [path |-> "file", exists |-> e, len |-> 0, ext |-> x, meta |-> FALSE,
     readable |-> FALSE] : e \in BOOLEAN, x \in FileExts }
    \cup { [path |-> "file", exists |-> TRUE, len |-> n, ext |-> x, meta |-> TRUE,
            readable |-> r] :
             n \in {0, MAX_MEDIA_SIZE, MAX_MEDIA_SIZE + 1}, x \in FileExts,
             r \in BOOLEAN }

Tweet(text, image) == [text |-> text, image |-> image]

\* What post_tweet (the tool) is called with.
Items ==
  { Tweet(tx, im) : tx \in {TextOk, TextEmpty, TextBlank},
                    im \in {None, Some(FileOk), Some(FileMissing)} }
    \cup { Tweet(TextOk, Some(FileBig)), Tweet(TextOk, Some(FileBmp)) }
    \cup { Tweet(TextOk, Some(f)) :
             f \in {FileTxt, FileNoExt, FileUpper, FileMissingBmp, FileBigBmp} }
    \cup { Tweet(TextOk, Some(f)) : f \in Files }

\* The items of the short chains.
ThreadItems ==
  { Tweet(TextOk, None), Tweet(TextOk, Some(FileOk)),
    Tweet(TextBlank, None), Tweet(TextOk, Some(FileMissing)) }

SeqsUpTo(S, n) == UNION { [1..k -> S] : k \in 0..n }

\* Chains around the length limit, of plain items.
LongThreads ==
  { [k \in 1..n |-> Tweet(TextOk, None)] :
      n \in {MAX_THREAD_LENGTH - 1, MAX_THREAD_LENGTH, MAX_THREAD_LENGTH + 1} }

\* Chains of two whose second item brings each kind of file.
ImageThreads ==
  { <<Tweet(TextOk, Some(FileOk)), Tweet(TextOk, Some(f))>> : f \in Files }

ThreadInputs == SeqsUpTo(ThreadItems, MaxThread) \cup LongThreads \cup ImageThreads

ConcItems == { Tweet(TextOk, Some(FileOk)), Tweet(TextBlank, None) }
ConcThreads ==
  { [k \in 1..n |-> Tweet(TextOk, None)] : n \in {0, 1, 2, MAX_THREAD_LENGTH + 1} }

\* The usernames the identity endpoint may answer with.
Usernames == {"alice", "bob"}

(***************************************************************************)
(* The remote service's answers.  A request either fails in transport or   *)
(* gets a status; a 2xx body parses or does not; a 429 may carry the       *)
(* x-rate-limit-reset header.                                              *)
(***************************************************************************)
Response(transport, status, parses, reset) ==
  [transport |-> transport, status |-> status, parses |-> parses, reset |-> reset,
   body |-> IF transport /\ ~parses THEN "resp-body" ELSE ""]

Responses ==
  { Response(FALSE, 0, FALSE, None),
    Response(TRUE, 200, TRUE, None),
    Response(TRUE, 200, FALSE, None),
    Response(TRUE, 401, FALSE, None),
    Response(TRUE, 429, FALSE, Some("1700000000")),
    Response(TRUE, 429, FALSE, None),
    Response(TRUE, 500, FALSE, None),
    Response(TRUE, 299, FALSE, None),
    Response(TRUE, 199, FALSE, None),
    Response(TRUE, 300, FALSE, None),
    [Response(TRUE, 403, FALSE, None) EXCEPT !.body = "forbidden"] }

ConcResponses ==
  { Response(TRUE, 200, TRUE, None), Response(TRUE, 500, FALSE, None) }

\* A reading of the status that lets a redirect through.
is_success_Below400(status) == status >= 200 /\ status <= 399

is_success(status) == status >= 200 /\ status <= 299

VARIABLES
  cached_username,  \* PostXServer.cached_username: Option<String>
  lock,             \* the holder of the cache's Mutex, if any
  pc,               \* each task's position
  call,             \* each task's operation and its arguments
  username,         \* the username the operation resolved
  idx,              \* post_thread's i + 1: the item being posted
  posted,           \* post_thread's posted
  reply_to,         \* post_thread's reply_to
  media_id,         \* post_tweet's media_id
  log,              \* the operation's requests, their outcomes, and its pauses
  diag,             \* the 401 diagnostics of the operation
  ret,              \* what the operation returned
  pct_input,        \* pct_encode's argument
  pct_output,       \* pct_encode's result, once it has run
  extra_params,     \* the caller's extra_params: a BTreeMap<String, String>
  signed,           \* what oauth_header computed, once it has run
  resigned,         \* its next call on the same arguments, with what it drew
  text_input,       \* validate_tweet_text's argument
  text_result       \* validate_tweet_text's result, once it has run

server_vars ==
  <<cached_username, lock, pc, call, username, idx, posted, reply_to,
    media_id, log, diag, ret>>

text_vars == <<text_input, text_result>>

pure_vars == <<pct_input, pct_output, extra_params, signed, resigned, text_vars>>

vars == <<server_vars, pure_vars>>

(***************************************************************************)
(* Errors are the code's format strings with their arguments.              *)
(***************************************************************************)
Error(kind) ==
  [kind |-> kind, status |-> 0, count |-> 0, limit |-> 0, body |-> "", reset |-> None]

Ok(v) == [ok |-> TRUE, val |-> v]
Err(e) == [ok |-> FALSE, val |-> e]

(***************************************************************************)
(* validate_tweet_text: blank after trimming, or more than 280 scalar      *)
(* values.                                                                 *)
(***************************************************************************)
is_whitespace(c) ==
  \/ c \in 9..13
  \/ c \in {32, 133, 160, 5760, 8232, 8233, 8239, 8287, 12288}
  \/ c \in 8192..8202

trim_is_empty(text) == \A k \in 1..Len(text) : is_whitespace(text[k])

\* The length of the text in bytes of UTF-8, as str::len gives it.
RECURSIVE chars_count_Bytes(_)
chars_count_Bytes(text) ==
  IF text = <<>> THEN 0
  ELSE IF Len(text) = 1
    THEN (IF text[1] < 128 THEN 1 ELSE IF text[1] < 2048 THEN 2
          ELSE IF text[1] < 65536 THEN 3 ELSE 4)
  ELSE LET mid == Len(text) \div 2
       IN  chars_count_Bytes(SubSeq(text, 1, mid))
             + chars_count_Bytes(SubSeq(text, mid + 1, Len(text)))

\* text.chars().count(): one per Unicode scalar value.
chars_count(text) == Len(text)

validate_tweet_text(text) ==
  IF trim_is_empty(text)
    THEN Err(Error("Tweet text cannot be empty"))
  ELSE IF chars_count(text) > MAX_TWEET_LENGTH
    THEN Err([Error("Tweet text is {} characters (max {})")
                EXCEPT !.count = chars_count(text), !.limit = MAX_TWEET_LENGTH])
  ELSE Ok("unit")

(***************************************************************************)
(* mime_from_path and the local checks of upload_media.                    *)
(***************************************************************************)
to_lowercase(ext) ==
  CASE ext = "PNG" -> "png"
    [] ext = "JPG" -> "jpg"
    [] ext = "JPEG" -> "jpeg"
    [] ext = "GIF" -> "gif"
    [] ext = "WEBP" -> "webp"
    [] ext = "BMP" -> "bmp"
    [] OTHER -> ext

ALLOWED_MIME_TYPES == {"image/jpeg", "image/png", "image/gif", "image/webp"}

\* A lookup that sends an unknown extension on as a generic type.
mime_from_path_Generic(file) ==
  IF to_lowercase(file.ext) \in {"jpg", "jpeg"} THEN Ok("image/jpeg")
  ELSE IF to_lowercase(file.ext) \in {"png", "gif", "webp"}
    THEN Ok("image/" \o to_lowercase(file.ext))
  ELSE Ok("application/octet-stream")

mime_from_path(file) ==
  LET ext == to_lowercase(file.ext)
      unsupported ==
        Err([Error("Unsupported image format '.{ext}'. Allowed: jpeg, png, gif, webp")
               EXCEPT !.body = ext])
      allowed(mime) ==
        IF mime \in ALLOWED_MIME_TYPES
          THEN Ok(mime)
          ELSE Err([Error("MIME type {mime} is not allowed") EXCEPT !.body = mime])
  IN  CASE ext \in {"jpg", "jpeg"} -> allowed("image/jpeg")
        [] ext = "png" -> allowed("image/png")
        [] ext = "gif" -> allowed("image/gif")
        [] ext = "webp" -> allowed("image/webp")
        [] OTHER -> unsupported

\* An uploader that looks at the extension before the file.
upload_media_checks_ExtensionFirst(file) ==
  IF ~mime_from_path(file).ok THEN mime_from_path(file)
  ELSE IF ~file.exists
    THEN Err([Error("File not found: {path}") EXCEPT !.body = file.path])
  ELSE IF ~file.meta THEN Err(Error("Cannot read file metadata: {e}"))
  ELSE IF file.len > MAX_MEDIA_SIZE
    THEN Err([Error("File too large: {} bytes (max {}MB)")
                EXCEPT !.count = file.len, !.limit = MAX_MEDIA_SIZE \div (1024 * 1024)])
  ELSE IF ~file.readable THEN Err(Error("Failed to read file: {e}"))
  ELSE mime_from_path(file)

\* upload_media up to the request: Ok(mime) when the upload is to be sent.
\* (Part::mime_str cannot fail on the four types mime_from_path returns.)
upload_media_checks(file) ==
  IF ~file.exists
    THEN Err([Error("File not found: {path}") EXCEPT !.body = file.path])
  ELSE IF ~file.meta THEN Err(Error("Cannot read file metadata: {e}"))
  ELSE IF file.len > MAX_MEDIA_SIZE
    THEN Err([Error("File too large: {} bytes (max {}MB)")
                EXCEPT !.count = file.len, !.limit = MAX_MEDIA_SIZE \div (1024 * 1024)])
  ELSE IF ~mime_from_path(file).ok THEN mime_from_path(file)
  ELSE IF ~file.readable THEN Err(Error("Failed to read file: {e}"))
  ELSE mime_from_path(file)

(***************************************************************************)
(* How each endpoint's caller reads a response.                            *)
(***************************************************************************)
\* rate_limit_reset: the reset header, when the response carries one.
rate_limit_reset(r) == r.reset

\* check_auth_error: one diagnostic per 401.
check_auth_error(r) == IF r.transport /\ r.status = 401 THEN 1 ELSE 0

\* XClient::get_me on response r, the service naming the account u.
get_me_result(r, u) ==
  IF ~r.transport THEN Err(Error("HTTP request failed: {e}"))
  ELSE IF ~is_success(r.status)
    THEN Err([Error("X API error ({status}): {body}")
                EXCEPT !.status = r.status, !.body = r.body])
  ELSE IF ~r.parses THEN Err(Error("Failed to parse response: {e}"))
  ELSE Ok([id |-> "42", name |-> "Name", username |-> u])

\* XClient::upload_media on response r, the service naming the media m.
upload_media_result(r, m) ==
  IF ~r.transport THEN Err(Error("Media upload failed: {e}"))
  ELSE IF r.status = 429
    THEN Err([Error("Media upload rate limited (429). {}Media uploads may have separate rate limits.")
                EXCEPT !.status = 429, !.reset = rate_limit_reset(r)])
  ELSE IF ~is_success(r.status)
    THEN Err([Error("Media upload error ({status}): {body}")
                EXCEPT !.status = r.status, !.body = r.body])
  ELSE IF ~r.parses THEN Err(Error("Failed to parse media response: {e}"))
  ELSE Ok(m)

PostResult(id, user) ==
  [tweet_id |-> id, url |-> <<"https://x.com/", user, "/status/", id>>]

\* XClient::post_tweet on response r, the service naming the post id.
post_tweet_result(r, id, user) ==
  IF ~r.transport THEN Err(Error("HTTP request failed: {e}"))
  ELSE IF r.status = 429
    THEN Err([Error("Rate limited (429). {}Try again later. Free tier allows ~17 tweets/24h.")
                EXCEPT !.status = 429, !.reset = rate_limit_reset(r)])
  ELSE IF ~is_success(r.status)
    THEN Err([Error("X API error ({status}): {body}")
                EXCEPT !.status = r.status, !.body = r.body])
  ELSE IF ~r.parses THEN Err(Error("Failed to parse tweet response: {e}"))
  ELSE Ok(PostResult(id, user))

(***************************************************************************)
(* The state after PostXServer::new: an empty cache, a free lock, no call  *)
(* in progress.                                                            *)
(***************************************************************************)
NoCall == [op |-> "none", tweets |-> <<>>]

ServerInit ==
  /\ cached_username = None
  /\ lock = None
  /\ pc = [t \in Tasks |-> "idle"]
  /\ call = [t \in Tasks |-> NoCall]
  /\ username = [t \in Tasks |-> None]
  /\ idx = [t \in Tasks |-> 0]
  /\ posted = [t \in Tasks |-> <<>>]
  /\ reply_to = [t \in Tasks |-> None]
  /\ media_id = [t \in Tasks |-> None]
  /\ log = [t \in Tasks |-> <<>>]
  /\ diag = [t \in Tasks |-> 0]
  /\ ret = [t \in Tasks |-> None]

\* An entry of the log: a request to an endpoint ("get_me", "upload",
\* "tweet") or a pause ("sleep") ...
Event(kind, item, reply, media) ==
  [kind |-> kind, item |-> item, reply |-> reply, media |-> media,
   ok |-> TRUE, id |-> None, resp |-> None]

\* ... or the outcome of a request as its caller read it: the response r,
\* whether it gave a result, and the identifier in it.
Outcome(kind, item, ok, id, r) ==
  [kind |-> kind, item |-> item, reply |-> None, media |-> None,
   ok |-> ok, id |-> id, resp |-> Some(r)]

NetKinds == {"get_me", "upload", "tweet"}

\* What a tool call or a direct client call hands back; output is the text
\* of the post_thread tool, in its parts.
Result(kind, p, total, error, me) ==
  [kind |-> kind, posted |-> p, total |-> total, error |-> error, me |-> me,
   output |-> None]

\* A task is free for a call when it serves none.
Free(t) == pc[t] = "idle"

\* A task takes up operation c at position p, its locals fresh.
Start(t, c, p, user, r) ==
  /\ Free(t)
  /\ call' = [call EXCEPT ![t] = c]
  /\ pc' = [pc EXCEPT ![t] = p]
  /\ username' = [username EXCEPT ![t] = user]
  /\ idx' = [idx EXCEPT ![t] = 0]
  /\ posted' = [posted EXCEPT ![t] = <<>>]
  /\ reply_to' = [reply_to EXCEPT ![t] = None]
  /\ media_id' = [media_id EXCEPT ![t] = None]
  /\ log' = [log EXCEPT ![t] = <<>>]
  /\ diag' = [diag EXCEPT ![t] = 0]
  /\ ret' = [ret EXCEPT ![t] = r]
  /\ UNCHANGED <<cached_username, lock>>
  /\ UNCHANGED pure_vars

(***************************************************************************)
(* The tool surface: entry of each operation.                              *)
(***************************************************************************)
\* PostXServer::post_tweet is called: it first resolves the username.
CallPostTweet(t, items) ==
  \E item \in items :
    Start(t, [op |-> "post_tweet", tweets |-> <<item>>], "eu_lock", None, None)

\* PostXServer::post_thread is called: the length checks, then the username.
CallPostThread(t, threads) ==
  \E tweets \in threads :
    LET c == [op |-> "post_thread", tweets |-> tweets] IN
    IF Len(tweets) = 0
      THEN Start(t, c, "done", None,
                 Some(Result("invalid_params", <<>>, 0,
                             Some(Error("Thread must contain at least one tweet")), None)))
    ELSE IF Len(tweets) > ServerMaxThread
      THEN Start(t, c, "done", None,
                 Some(Result("invalid_params", <<>>, Len(tweets),
                             Some(Error("Thread cannot exceed 25 tweets")), None)))
    ELSE Start(t, c, "eu_lock", None, None)

\* PostXServer::get_me is called: it always fetches.
CallGetMe(t) ==
  Start(t, [op |-> "get_me", tweets |-> <<>>], "me_send", None, None)

\* XClient::post_thread is called directly, with a username.
CallClientPostThread(t, threads) ==
  \E tweets \in threads, u \in Usernames :
    Start(t, [op |-> "client_post_thread", tweets |-> tweets], "pth_begin",
          Some(u), None)

(***************************************************************************)
(* What happens when XClient::post_thread and XClient::post_tweet return.  *)
(***************************************************************************)
\* The text the post_thread tool builds from a ThreadResult: the line
\* "Posted {}/{} tweets:" and one line "{}. ID: {} - {}" per post when any
\* was posted, then "Error: {err}" when there is an error.
thread_output(p, n, error) ==
  [header |-> IF p # <<>> THEN Some(<<Len(p), n>>) ELSE None,
   lines |-> [i \in 1..Len(p) |-> <<i, p[i].tweet_id, p[i].url>>],
   error |-> error]

\* A tool that calls a chain with some posts a success.
thread_result_kind_PartialIsSuccess(p, error) ==
  IF error # None /\ p = <<>> THEN "error" ELSE "success"

\* CallToolResult::error whenever the ThreadResult has an error, with or
\* without posts; CallToolResult::success otherwise.
thread_result_kind(p, error) ==
  IF error # None
    THEN (IF p = <<>> THEN "error" ELSE "error")
    ELSE "success"

\* The tool's rendering of a ThreadResult; the direct caller gets it as is.
ThreadReturns(t, p, error) ==
  LET n == Len(call[t].tweets)
      r == IF call[t].op = "client_post_thread"
             THEN Result("ThreadResult", p, n, error, None)
             ELSE [Result(thread_result_kind(p, error), p, n, error, None)
                     EXCEPT !.output = Some(thread_output(p, n, error))]
  IN  /\ ret' = [ret EXCEPT ![t] = Some(r)]
      /\ pc' = [pc EXCEPT ![t] = "done"]

\* An error that names the item by its 0-based index.
ThreadError_ZeroBased(i, n, e) ==
  [kind |-> "Tweet {} of {} failed: {e}", index |-> i - 1, total |-> n, cause |-> e]

\* The error of the chain whose item i (1-based) of n failed with e.
ThreadError(i, n, e) ==
  [kind |-> "Tweet {} of {} failed: {e}", index |-> i, total |-> n, cause |-> e]

\* A chain whose every reply goes to its first post.
NextReplyTo_First(old, post) == IF old = None THEN Some(post.tweet_id) ELSE old

\* reply_to = Some(post.tweet_id.clone())
NextReplyTo(old, post) == Some(post.tweet_id)

\* A list that loses the post of the last item.
Pushed_DropLast(list, post, last) == IF last THEN list ELSE Append(list, post)

\* posted.push(post); last tells whether the item was the chain's last.
Pushed(list, post, last) == Append(list, post)

\* A loop that pauses before the first item too.
pause_before_EveryItem(i) == TRUE

\* if i > 0 { sleep(500 ms) }: the pause before item i, counted from 1.
pause_before(i) == i - 1 > 0

\* Where the loop takes up item i: at its pause, or at its post.
LoopAt(i) == IF pause_before(i) THEN "pth_sleep" ELSE "pt_begin"

\* The rest of post_thread's loop body, given post_tweet's result.
ThreadStep(t, res) ==
  LET n == Len(call[t].tweets) IN
  IF res.ok
    THEN /\ reply_to' = [reply_to EXCEPT ![t] = NextReplyTo(reply_to[t], res.val)]
         /\ posted' = [posted EXCEPT ![t] = Pushed(posted[t], res.val, idx[t] = n)]
         /\ IF idx[t] < n
              THEN /\ idx' = [idx EXCEPT ![t] = idx[t] + 1]
                   /\ pc' = [pc EXCEPT ![t] = LoopAt(idx[t] + 1)]
                   /\ UNCHANGED ret
              ELSE /\ ThreadReturns(t, Pushed(posted[t], res.val, idx[t] = n), None)
                   /\ UNCHANGED idx
    ELSE /\ ThreadReturns(t, posted[t], Some(ThreadError(idx[t], n, res.val)))
         /\ UNCHANGED <<reply_to, posted, idx>>

\* The tool's rendering of post_tweet's result.
ToolPostReturns(t, res) ==
  /\ ret' = [ret EXCEPT ![t] =
               IF res.ok
                 THEN Some(Result("success", <<res.val>>, 1, None, None))
                 ELSE Some(Result("error", <<>>, 1, Some(res.val), None))]
  /\ pc' = [pc EXCEPT ![t] = "done"]
  /\ UNCHANGED <<reply_to, posted, idx>>

\* A post_tweet that sends its create-post request once more after a
\* response it could not use.
PostTweetReturns_RetryOnce(t, res) ==
  LET last == log'[t][Len(log'[t])]
      sent == {p \in DOMAIN log[t] :
                 log[t][p].kind = "tweet" /\ log[t][p].item = last.item}
  IN  IF ~res.ok /\ pc[t] = "tw_wait" /\ Cardinality(sent) < 2
        THEN /\ pc' = [pc EXCEPT ![t] = "tw_send"]
             /\ UNCHANGED <<ret, reply_to, posted, idx>>
      ELSE IF call[t].op = "post_tweet" THEN ToolPostReturns(t, res)
      ELSE ThreadStep(t, res)

\* XClient::post_tweet returns res to its caller.
PostTweetReturns(t, res) ==
  IF call[t].op = "post_tweet" THEN ToolPostReturns(t, res) ELSE ThreadStep(t, res)

(***************************************************************************)
(* PostXServer::ensure_username and the identity fetch.                    *)
(***************************************************************************)
\* Where the operation goes once it has its username.
AfterUsername(t) == IF call[t].op = "post_tweet" THEN "pt_begin" ELSE "pth_begin"

\* cached_username.lock().await, before the read.
EuLock(t) ==
  /\ pc[t] = "eu_lock"
  /\ lock = None
  /\ lock' = Some(t)
  /\ pc' = [pc EXCEPT ![t] = "eu_read"]
  /\ UNCHANGED <<cached_username, call, username, idx, posted, reply_to,
                 media_id, log, diag, ret>>
  /\ UNCHANGED pure_vars

\* A read that never finds the cached value.
CacheHit_Never(cached) == FALSE

\* if let Some(ref username) = *cached
CacheHit(cached) == cached # None

\* A guard that lives on through the fetch after a miss.
GuardAfterRead_HeldOnMiss(t, hit) == IF hit THEN None ELSE Some(t)

\* The guard ends with the block of the read, hit or miss.
GuardAfterRead(t, hit) == None

\* The read under the lock: a hit returns the cached value, a miss goes on
\* to fetch; the guard is dropped either way.
EuRead(t) ==
  /\ pc[t] = "eu_read"
  /\ lock = Some(t)
  /\ lock' = GuardAfterRead(t, CacheHit(cached_username))
  /\ IF CacheHit(cached_username)
       THEN /\ username' = [username EXCEPT ![t] = cached_username]
            /\ pc' = [pc EXCEPT ![t] = AfterUsername(t)]
       ELSE /\ pc' = [pc EXCEPT ![t] = "me_send"]
            /\ UNCHANGED username
  /\ UNCHANGED <<cached_username, call, idx, posted, reply_to, media_id,
                 log, diag, ret>>
  /\ UNCHANGED pure_vars

\* XClient::get_me sends its request.
MeSend(t) ==
  /\ pc[t] = "me_send"
  /\ log' = [log EXCEPT ![t] = Append(log[t], Event("get_me", 0, None, None))]
  /\ pc' = [pc EXCEPT ![t] = "me_wait"]
  /\ UNCHANGED <<cached_username, lock, call, username, idx, posted,
                 reply_to, media_id, diag, ret>>
  /\ UNCHANGED pure_vars

\* A failed fetch that empties the cache.
CacheOnFetchError_Cleared(cached) == None

\* get_me().await? and the Err arm of the get_me tool: the error goes to the
\* caller and the cache is not touched.
CacheOnFetchError(cached) == cached

\* The identity response arrives.  An error ends the operation, whichever
\* tool asked; a username goes on to be stored.
MeRecv(t, responses) ==
  /\ pc[t] = "me_wait"
  /\ \E r \in responses, u \in Usernames :
       LET res == get_me_result(r, u) IN
       /\ diag' = [diag EXCEPT ![t] = diag[t] + check_auth_error(r)]
       /\ log' = [log EXCEPT ![t] =
                    Append(log[t], Outcome("get_me_resp", 0, res.ok, None, r))]
       /\ IF res.ok
            THEN /\ username' = [username EXCEPT ![t] = Some(res.val.username)]
                 /\ pc' = [pc EXCEPT ![t] =
                             IF call[t].op = "get_me" THEN "gm_lock" ELSE "eu_lock2"]
                 /\ UNCHANGED <<ret, cached_username>>
            ELSE /\ ret' = [ret EXCEPT ![t] =
                              Some(Result("error", <<>>, Len(call[t].tweets),
                                          Some(res.val), None))]
                 /\ pc' = [pc EXCEPT ![t] = "done"]
                 /\ cached_username' = CacheOnFetchError(cached_username)
                 /\ UNCHANGED username
  /\ UNCHANGED <<lock, call, idx, posted, reply_to, media_id>>
  /\ UNCHANGED pure_vars

\* cached_username.lock().await, before the write of ensure_username.
EuLock2(t) ==
  /\ pc[t] = "eu_lock2"
  /\ lock = None
  /\ lock' = Some(t)
  /\ pc' = [pc EXCEPT ![t] = "eu_store"]
  /\ UNCHANGED <<cached_username, call, username, idx, posted, reply_to,
                 media_id, log, diag, ret>>
  /\ UNCHANGED pure_vars

\* A write that empties the cache.
CacheWrite_Forget(name) == None

\* *cached = Some(username.clone())
CacheWrite(name) == Some(name)

\* The write under the lock, and the guard's drop.
EuStore(t) ==
  /\ pc[t] = "eu_store"
  /\ lock = Some(t)
  /\ cached_username' = CacheWrite(username[t][1])
  /\ lock' = None
  /\ pc' = [pc EXCEPT ![t] = AfterUsername(t)]
  /\ UNCHANGED <<call, username, idx, posted, reply_to, media_id, log,
                 diag, ret>>
  /\ UNCHANGED pure_vars

\* cached_username.lock().await in the get_me tool.
GmLock(t) ==
  /\ pc[t] = "gm_lock"
  /\ lock = None
  /\ lock' = Some(t)
  /\ pc' = [pc EXCEPT ![t] = "gm_store"]
  /\ UNCHANGED <<cached_username, call, username, idx, posted, reply_to,
                 media_id, log, diag, ret>>
  /\ UNCHANGED pure_vars

\* The get_me tool refreshes the cache and reports the account.
GmStore(t) ==
  /\ pc[t] = "gm_store"
  /\ lock = Some(t)
  /\ cached_username' = CacheWrite(username[t][1])
  /\ lock' = None
  /\ ret' = [ret EXCEPT ![t] =
               Some(Result("success", <<>>, 0, None,
                           Some([id |-> "42", name |-> "Name",
                                 username |-> username[t][1]])))]
  /\ pc' = [pc EXCEPT ![t] = "done"]
  /\ UNCHANGED <<call, username, idx, posted, reply_to, media_id, log, diag>>
  /\ UNCHANGED pure_vars

(***************************************************************************)
(* XClient::post_thread and XClient::post_tweet.                           *)
(***************************************************************************)
\* The position of the item being posted, and the item.
ItemNo(t) == IF call[t].op = "post_tweet" THEN 1 ELSE idx[t]
CurItem(t) == call[t].tweets[ItemNo(t)]

\* A limit that already turns away a chain of MAX_THREAD_LENGTH items.
exceeds_max_thread_OffByOne(n) == n >= MAX_THREAD_LENGTH

\* tweets.len() > MAX_THREAD_LENGTH
exceeds_max_thread(n) == n > MAX_THREAD_LENGTH

\* XClient::post_thread starts: the length checks, then the first item.
PostThreadBegin(t) ==
  /\ pc[t] = "pth_begin"
  /\ LET n == Len(call[t].tweets) IN
     IF n = 0
       THEN /\ ThreadReturns(t, <<>>, Some(Error("Thread must contain at least one tweet")))
            /\ UNCHANGED <<posted, reply_to, idx>>
     ELSE IF exceeds_max_thread(n)
       THEN /\ ThreadReturns(t, <<>>,
                             Some([Error("Thread exceeds maximum of {MAX_THREAD_LENGTH} tweets")
                                     EXCEPT !.limit = MAX_THREAD_LENGTH]))
            /\ UNCHANGED <<posted, reply_to, idx>>
     ELSE /\ posted' = [posted EXCEPT ![t] = <<>>]
          /\ reply_to' = [reply_to EXCEPT ![t] = None]
          /\ idx' = [idx EXCEPT ![t] = 1]
          /\ pc' = [pc EXCEPT ![t] = LoopAt(1)]
          /\ UNCHANGED ret
  /\ UNCHANGED <<cached_username, lock, call, username, media_id, log, diag>>
  /\ UNCHANGED pure_vars

\* The 500 ms pause before every item but the first.
PostThreadSleep(t) ==
  /\ pc[t] = "pth_sleep"
  /\ log' = [log EXCEPT ![t] = Append(log[t], Event("sleep", idx[t], None, None))]
  /\ pc' = [pc EXCEPT ![t] = "pt_begin"]
  /\ UNCHANGED <<cached_username, lock, call, username, idx, posted,
                 reply_to, media_id, diag, ret>>
  /\ UNCHANGED pure_vars

\* XClient::post_tweet starts: the text is validated, then the image, if
\* any, is to be uploaded.
PostTweetBegin(t) ==
  /\ pc[t] = "pt_begin"
  /\ LET v == validate_tweet_text(CurItem(t).text) IN
     IF ~v.ok
       THEN PostTweetReturns(t, v)
       ELSE /\ pc' = [pc EXCEPT ![t] =
                        IF CurItem(t).image = None THEN "tw_send" ELSE "up_begin"]
            /\ UNCHANGED <<ret, reply_to, posted, idx>>
  /\ media_id' = [media_id EXCEPT ![t] = None]
  /\ UNCHANGED <<cached_username, lock, call, username, log, diag>>
  /\ UNCHANGED pure_vars

\* XClient::upload_media: the local checks, then the request.
UploadBegin(t) ==
  /\ pc[t] = "up_begin"
  /\ LET c == upload_media_checks(CurItem(t).image[1]) IN
     IF ~c.ok
       THEN /\ PostTweetReturns(t, c)
            /\ UNCHANGED log
       ELSE /\ log' = [log EXCEPT ![t] =
                         Append(log[t], Event("upload", ItemNo(t), None, None))]
            /\ pc' = [pc EXCEPT ![t] = "up_wait"]
            /\ UNCHANGED <<ret, reply_to, posted, idx>>
  /\ UNCHANGED <<cached_username, lock, call, username, media_id, diag>>
  /\ UNCHANGED pure_vars

\* The media handle the service gives the upload just sent.
ServiceMediaId(t) == Len(log[t])

\* The upload response arrives.
UploadRecv(t, responses) ==
  /\ pc[t] = "up_wait"
  /\ \E r \in responses :
       LET res == upload_media_result(r, ServiceMediaId(t)) IN
       /\ diag' = [diag EXCEPT ![t] = diag[t] + check_auth_error(r)]
       /\ log' = [log EXCEPT ![t] =
                    Append(log[t],
                           Outcome("upload_resp", ItemNo(t), res.ok,
                                   IF res.ok THEN Some(res.val) ELSE None, r))]
       /\ IF res.ok
            THEN /\ media_id' = [media_id EXCEPT ![t] = Some(res.val)]
                 /\ pc' = [pc EXCEPT ![t] = "tw_send"]
                 /\ UNCHANGED <<ret, reply_to, posted, idx>>
            ELSE /\ PostTweetReturns(t, res)
                 /\ UNCHANGED media_id
  /\ UNCHANGED <<cached_username, lock, call, username>>
  /\ UNCHANGED pure_vars

\* A body that leaves the uploaded image out.
TweetMedia_Dropped(id) == None

\* TweetBody.media: the list of the one handle, or no field.
TweetMedia(id) == IF id = None THEN None ELSE Some(<<id[1]>>)

\* The create-post request is sent: text, the media list, the reply target.
TweetSend(t) ==
  /\ pc[t] = "tw_send"
  /\ log' = [log EXCEPT ![t] =
               Append(log[t], Event("tweet", ItemNo(t), reply_to[t], TweetMedia(media_id[t])))]
  /\ pc' = [pc EXCEPT ![t] = "tw_wait"]
  /\ UNCHANGED <<cached_username, lock, call, username, idx, posted,
                 reply_to, media_id, diag, ret>>
  /\ UNCHANGED pure_vars

\* The identifier the service gives the post just created.
ServiceTweetId(t) == Len(log[t])

\* A post that takes the username from the cache as it is when it is made.
UrlUsername_FromCache(resolved, cached) ==
  IF cached # None THEN cached[1] ELSE resolved

\* The username a post's URL is built from: the one handed to post_tweet.
UrlUsername(resolved, cached) == resolved

\* The create-post response arrives.
TweetRecv(t, responses) ==
  /\ pc[t] = "tw_wait"
  /\ \E r \in responses :
       LET res == post_tweet_result(r, ServiceTweetId(t),
                                    UrlUsername(username[t][1], cached_username)) IN
       /\ diag' = [diag EXCEPT ![t] = diag[t] + check_auth_error(r)]
       /\ log' = [log EXCEPT ![t] =
                    Append(log[t],
                           Outcome("tweet_resp", ItemNo(t), res.ok,
                                   IF res.ok THEN Some(res.val.tweet_id) ELSE None, r))]
       /\ PostTweetReturns(t, res)
  /\ UNCHANGED <<cached_username, lock, call, username, media_id>>
  /\ UNCHANGED pure_vars

\* The call's result has gone to its caller and its locals are dropped: the
\* service waits for the next request, the cache as the call left it.
Served(t) ==
  /\ pc[t] = "done"
  /\ pc' = [pc EXCEPT ![t] = "idle"]
  /\ call' = [call EXCEPT ![t] = NoCall]
  /\ username' = [username EXCEPT ![t] = None]
  /\ idx' = [idx EXCEPT ![t] = 0]
  /\ posted' = [posted EXCEPT ![t] = <<>>]
  /\ reply_to' = [reply_to EXCEPT ![t] = None]
  /\ media_id' = [media_id EXCEPT ![t] = None]
  /\ log' = [log EXCEPT ![t] = <<>>]
  /\ diag' = [diag EXCEPT ![t] = 0]
  /\ ret' = [ret EXCEPT ![t] = None]
  /\ UNCHANGED <<cached_username, lock>>
  /\ UNCHANGED pure_vars

(***************************************************************************)
(* The specifications.  Spec: one task serving call after call, every      *)
(* input.  SpecConc: NumTasks tasks, one call each, running at once.       *)
(***************************************************************************)
Step(t, items, threads, responses) ==
  \/ CallPostTweet(t, items)
  \/ CallPostThread(t, threads)
  \/ CallGetMe(t)
  \/ EuLock(t)
  \/ EuRead(t)
  \/ MeSend(t)
  \/ MeRecv(t, responses)
  \/ EuLock2(t)
  \/ EuStore(t)
  \/ GmLock(t)
  \/ GmStore(t)
  \/ PostThreadBegin(t)
  \/ PostThreadSleep(t)
  \/ PostTweetBegin(t)
  \/ UploadBegin(t)
  \/ UploadRecv(t, responses)
  \/ TweetSend(t)
  \/ TweetRecv(t, responses)

\* validate_tweet_text has not been tried.
TextIdle ==
  /\ text_input = <<>>
  /\ text_result = None

PureIdle ==
  /\ TextIdle
  /\ pct_input = <<>>
  /\ pct_output = None
  /\ extra_params = <<>>
  /\ signed = None
  /\ resigned = None

Init == ServerInit /\ PureIdle

Next ==
  \/ Step(1, Items, ThreadInputs, Responses)
  \/ CallClientPostThread(1, ThreadInputs)
  \/ Served(1)

Spec == Init /\ [][Next]_vars

NextConc == \E t \in Tasks : Step(t, ConcItems, ConcThreads, ConcResponses)

SpecConc == Init /\ [][NextConc]_vars

(***************************************************************************)
(* validate_tweet_text on its own: texts of every length up to two past    *)
(* the limit, of one-, two- and four-byte characters and of spaces, each   *)
(* also behind a leading space.                                            *)
(***************************************************************************)
TextChars == {97, 233, 128512, 32}

TextInputs ==
  { [k \in 1..n |-> c] : n \in 0..(MAX_TWEET_LENGTH + 2), c \in TextChars }
    \cup { [k \in 1..n |-> IF k = 1 THEN 32 ELSE c] :
             n \in 2..(MAX_TWEET_LENGTH + 2), c \in TextChars }

InitText ==
  /\ ServerInit
  /\ text_input \in TextInputs
  /\ text_result = None
  /\ pct_input = <<>>
  /\ pct_output = None
  /\ extra_params = <<>>
  /\ signed = None
  /\ resigned = None

ValidateText ==
  /\ text_result = None
  /\ text_result' = Some(validate_tweet_text(text_input))
  /\ UNCHANGED <<server_vars, text_input, pct_input, pct_output, extra_params, signed, resigned>>

SpecText == InitText /\ [][ValidateText]_vars

(***************************************************************************)
(* pct_encode.  A string is its sequence of Unicode scalar values; the     *)
(* encoder works on its UTF-8 bytes and writes ASCII.                      *)
(***************************************************************************)
\* The UTF-8 bytes of one scalar value.
Utf8(c) ==
  IF c < 128 THEN <<c>>
  ELSE IF c < 2048 THEN <<192 + (c \div 64), 128 + (c % 64)>>
  ELSE IF c < 65536
    THEN <<224 + (c \div 4096), 128 + ((c \div 64) % 64), 128 + (c % 64)>>
  ELSE <<240 + (c \div 262144), 128 + ((c \div 4096) % 64),
         128 + ((c \div 64) % 64), 128 + (c % 64)>>

\* The UTF-8 bytes of a string (by halves, to keep the evaluation shallow).
RECURSIVE Utf8Bytes(_)
Utf8Bytes(str) ==
  IF str = <<>> THEN <<>>
  ELSE IF Len(str) = 1 THEN Utf8(str[1])
  ELSE LET h == Len(str) \div 2 IN
       Utf8Bytes(SubSeq(str, 1, h)) \o Utf8Bytes(SubSeq(str, h + 1, Len(str)))

\* percent_encoding::CONTROLS: 0x00-0x1F and 0x7F.
CONTROLS == (0..31) \cup {127}

\* The set the code builds: CONTROLS and the twenty characters it adds,
\* space ! # $ % & ' ( ) * + , / : ; = ? @ [ ].
RFC3986 ==
  CONTROLS \cup {32, 33, 35, 36, 37, 38, 39, 40, 41, 42, 43, 44, 47, 58, 59,
                 61, 63, 64, 91, 93}

\* utf8_percent_encode escapes a byte that is not ASCII or is in the set.
should_percent_encode(b) == b >= 128 \/ b \in RFC3986

HexUpper(n) == IF n < 10 THEN 48 + n ELSE 55 + n

\* %XX, uppercase.
PercentByte(b) == <<37, HexUpper(b \div 16), HexUpper(b % 16)>>

\* Byte by byte, in order (by halves, to keep the evaluation shallow).
RECURSIVE PercentEncodeBytes(_)
PercentEncodeBytes(bytes) ==
  IF bytes = <<>> THEN <<>>
  ELSE IF Len(bytes) = 1
    THEN (IF should_percent_encode(bytes[1]) THEN PercentByte(bytes[1]) ELSE bytes)
  ELSE LET h == Len(bytes) \div 2 IN
       PercentEncodeBytes(SubSeq(bytes, 1, h))
         \o PercentEncodeBytes(SubSeq(bytes, h + 1, Len(bytes)))

pct_encode(input) == PercentEncodeBytes(Utf8Bytes(input))

\* The strings pct_encode is tried on: every ASCII character and three
\* characters of two, three and four UTF-8 bytes.
MaxPctLen == 1
PctChars == (0..127) \cup {233, 8364, 128512}

InitPct ==
  /\ ServerInit
  /\ TextIdle
  /\ pct_input \in SeqsUpTo(PctChars, MaxPctLen)
  /\ pct_output = None
  /\ extra_params = <<>>
  /\ signed = None
  /\ resigned = None

PctEncode ==
  /\ pct_output = None
  /\ pct_output' = Some(pct_encode(pct_input))
  /\ UNCHANGED <<server_vars, pct_input, extra_params, signed, resigned, text_vars>>

SpecPct == InitPct /\ [][PctEncode]_vars

(***************************************************************************)
(* The signer.  A BTreeMap<String, String> is the sequence of its          *)
(* <<key, value>> entries in the order its iterator yields them.           *)
(***************************************************************************)
\* "oauth_consumer_key"
OAUTH_CONSUMER_KEY ==
  <<111, 97, 117, 116, 104, 95, 99, 111, 110, 115, 117, 109, 101, 114,
    95, 107, 101, 121>>
\* "oauth_nonce"
OAUTH_NONCE ==
  <<111, 97, 117, 116, 104, 95, 110, 111, 110, 99, 101>>
\* "oauth_signature_method"
OAUTH_SIGNATURE_METHOD ==
  <<111, 97, 117, 116, 104, 95, 115, 105, 103, 110, 97, 116, 117, 114,
    101, 95, 109, 101, 116, 104, 111, 100>>
\* "oauth_timestamp"
OAUTH_TIMESTAMP ==
  <<111, 97, 117, 116, 104, 95, 116, 105, 109, 101, 115, 116, 97, 109,
    112>>
\* "oauth_token"
OAUTH_TOKEN ==
  <<111, 97, 117, 116, 104, 95, 116, 111, 107, 101, 110>>
\* "oauth_version"
OAUTH_VERSION ==
  <<111, 97, 117, 116, 104, 95, 118, 101, 114, 115, 105, 111, 110>>
\* "oauth_signature"
OAUTH_SIGNATURE ==
  <<111, 97, 117, 116, 104, 95, 115, 105, 103, 110, 97, 116, 117, 114,
    101>>
\* "oauth_", the prefix of the keys the header keeps
OAUTH_PREFIX ==
  <<111, 97, 117, 116, 104, 95>>
\* "HMAC-SHA1"
HMAC_SHA1 ==
  <<72, 77, 65, 67, 45, 83, 72, 65, 49>>
\* "1.0"
VERSION_1_0 ==
  <<49, 46, 48>>
\* "OAuth "
OAUTH_SCHEME ==
  <<79, 65, 117, 116, 104, 32>>
\* "https://api.x.com/2/tweets"
TWEETS_URL ==
  <<104, 116, 116, 112, 115, 58, 47, 47, 97, 112, 105, 46, 120, 46, 99,
    111, 109, 47, 50, 47, 116, 119, 101, 101, 116, 115>>
\* "https://api.x.com/2/users/me"
ME_URL ==
  <<104, 116, 116, 112, 115, 58, 47, 47, 97, 112, 105, 46, 120, 46, 99,
    111, 109, 47, 50, 47, 117, 115, 101, 114, 115, 47, 109, 101>>

\* The credentials of the Config the client was built with.
Config ==
  [api_key |-> <<99, 107>>, api_key_secret |-> <<115, 38, 49>>,
   access_token |-> <<116, 111, 107>>, access_token_secret |-> <<116, 43, 50>>]

\* Byte order on strings, as String's Ord: the first differing byte decides,
\* and a proper prefix comes first.
RECURSIVE StrLess(_, _)
StrLess(a, b) ==
  IF b = <<>> THEN FALSE
  ELSE IF a = <<>> THEN TRUE
  ELSE IF Head(a) # Head(b) THEN Head(a) < Head(b)
  ELSE StrLess(Tail(a), Tail(b))

\* A map that keeps insertion order: a new key goes to the end.
RECURSIVE BTreeInsert_Append(_, _, _)
BTreeInsert_Append(map, k, v) ==
  IF map = <<>> THEN <<<<k, v>>>>
  ELSE IF Head(map)[1] = k THEN <<<<k, v>>>> \o Tail(map)
  ELSE <<Head(map)>> \o BTreeInsert_Append(Tail(map), k, v)

\* BTreeMap::insert: the entry replaces the one of an equal key, or goes to
\* its place in key order.  (Bytes compare as their scalar values do: UTF-8
\* keeps the order.)
RECURSIVE BTreeInsert(_, _, _)
BTreeInsert(map, k, v) ==
  IF map = <<>> THEN <<<<k, v>>>>
  ELSE IF Head(map)[1] = k THEN <<<<k, v>>>> \o Tail(map)
  ELSE IF StrLess(k, Head(map)[1]) THEN <<<<k, v>>>> \o map
  ELSE <<Head(map)>> \o BTreeInsert(Tail(map), k, v)

\* for (k, v) in extra_params { params.insert(k, v) }
RECURSIVE InsertAll(_, _)
InsertAll(map, extra) ==
  IF extra = <<>> THEN map
  ELSE InsertAll(BTreeInsert(map, Head(extra)[1], Head(extra)[2]), Tail(extra))

starts_with(str, prefix) ==
  Len(str) >= Len(prefix) /\ SubSeq(str, 1, Len(prefix)) = prefix

RECURSIVE Join(_, _)
Join(parts, sep) ==
  IF parts = <<>> THEN <<>>
  ELSE IF Len(parts) = 1 THEN parts[1]
  ELSE parts[1] \o sep \o Join(Tail(parts), sep)

to_uppercase(str) ==
  [k \in 1..Len(str) |-> IF str[k] \in 97..122 THEN str[k] - 32 ELSE str[k]]

\* signature_base_string: METHOD & enc(url) & enc(k1=v1&k2=v2...).
signature_base_string(method, url, params) ==
  LET pairs == [k \in 1..Len(params) |->
                  pct_encode(params[k][1]) \o <<61>> \o pct_encode(params[k][2])]
      param_string == Join(pairs, <<38>>)
  IN  to_uppercase(method) \o <<38>> \o pct_encode(url) \o <<38>>
        \o pct_encode(param_string)

\* BASE64(HMAC-SHA1(key, message)), idealised: an injective function of the
\* key and the message into the base64 alphabet (the key holds no '/').
HmacSha1Base64(key, message) == <<43>> \o key \o <<47>> \o message \o <<61>>

\* The six protocol parameters, inserted in the code's order.
ProtocolParams(nonce, timestamp) ==
  LET p1 == BTreeInsert(<<>>, OAUTH_CONSUMER_KEY, Config.api_key)
      p2 == BTreeInsert(p1, OAUTH_NONCE, nonce)
      p3 == BTreeInsert(p2, OAUTH_SIGNATURE_METHOD, HMAC_SHA1)
      p4 == BTreeInsert(p3, OAUTH_TIMESTAMP, timestamp)
      p5 == BTreeInsert(p4, OAUTH_TOKEN, Config.access_token)
  IN  BTreeInsert(p5, OAUTH_VERSION, VERSION_1_0)

\* A header that keeps every entry.
HeaderEntries_All(params) == params

\* The entries the header keeps.
HeaderEntries(params) == SelectSeq(params, LAMBDA e : starts_with(e[1], OAUTH_PREFIX))

\* oauth_header, given the nonce and the clock it drew: the parameter map
\* it signed, the base string, and the header.
oauth_header(method, url, extra, nonce, timestamp) ==
  LET params == InsertAll(ProtocolParams(nonce, timestamp), extra)
      base_string == signature_base_string(method, url, params)
      signing_key == pct_encode(Config.api_key_secret) \o <<38>>
                       \o pct_encode(Config.access_token_secret)
      signature == HmacSha1Base64(signing_key, base_string)
      with_sig == BTreeInsert(params, OAUTH_SIGNATURE, signature)
      kept == HeaderEntries(with_sig)
      header_parts == [k \in 1..Len(kept) |->
                         pct_encode(kept[k][1]) \o <<61, 34>>
                           \o pct_encode(kept[k][2]) \o <<34>>]
  IN  [method |-> method, url |-> url, nonce |-> nonce, timestamp |-> timestamp,
       params |-> params, base_string |-> base_string, signature |-> signature,
       header_parts |-> header_parts,
       header |-> OAUTH_SCHEME \o Join(header_parts, <<44, 32>>)]

\* hex::encode: two lowercase hex digits per byte.
HexLower(n) == IF n < 10 THEN 48 + n ELSE 87 + n

RECURSIVE hex_encode(_)
hex_encode(bytes) ==
  IF bytes = <<>> THEN <<>>
  ELSE <<HexLower(Head(bytes) \div 16), HexLower(Head(bytes) % 16)>>
         \o hex_encode(Tail(bytes))

\* u64::to_string.
RECURSIVE to_string(_)
to_string(n) ==
  IF n < 10 THEN <<48 + n>> ELSE to_string(n \div 10) \o <<48 + (n % 10)>>

\* What the signer is tried on: the sixteen random bytes and the clock
\* readings it may draw, and the extra parameters a caller may insert.
NonceBytes == { [k \in 1..16 |-> 0], [k \in 1..16 |-> 171] }
ClockSecs == {1700000000, 1700000001}
Methods == { <<71, 69, 84>>, <<112, 111, 115, 116>> }
Urls == {TWEETS_URL}
ExtraKeys_Status == <<115, 116, 97, 116, 117, 115>>

ExtraKeys ==
  { ExtraKeys_Status,
    <<90>>,
    <<112, 61, 113>>,
    <<111, 97, 117, 116, 104, 95, 99, 97, 108, 108, 98, 97, 99, 107>>,
    OAUTH_TOKEN,
    OAUTH_SIGNATURE }
ExtraValues == { <<118>>, <<97, 32, 98, 38, 99>> }
MaxExtras == 2

InitSign ==
  /\ ServerInit
  /\ TextIdle
  /\ pct_input = <<>>
  /\ pct_output = None
  /\ extra_params = <<>>
  /\ signed = None
  /\ resigned = None

\* The caller inserts into the map it will pass as extra_params.
InsertExtra ==
  /\ signed = None
  /\ \E k \in ExtraKeys, v \in ExtraValues :
       LET m == BTreeInsert(extra_params, k, v) IN
       /\ Len(m) <= MaxExtras
       /\ extra_params' = m
  /\ UNCHANGED <<server_vars, pct_input, pct_output, signed, resigned, text_vars>>

\* oauth_header runs, drawing its nonce and reading the clock.
Sign ==
  /\ signed = None
  /\ \E method \in Methods, url \in Urls, rnd \in NonceBytes, now \in ClockSecs :
       signed' = Some(oauth_header(method, url, extra_params,
                                   hex_encode(rnd), to_string(now)))
  /\ UNCHANGED <<server_vars, pct_input, pct_output, extra_params, resigned, text_vars>>

NextSign == InsertExtra \/ Sign

SpecSign == InitSign /\ [][NextSign]_vars

(***************************************************************************)
(* Two calls of oauth_header in succession on the same method, URL and     *)
(* parameters.  The parameters are a caller's map: empty as the client     *)
(* passes it, or holding extras, among them ones named like the nonce and  *)
(* the timestamp.                                                          *)
(***************************************************************************)
ResignExtras ==
  { <<>>,
    InsertAll(<<>>, << <<ExtraKeys_Status, <<118>> >> >>),
    InsertAll(<<>>, << <<OAUTH_NONCE, <<110>> >> >>),
    InsertAll(<<>>, << <<OAUTH_TIMESTAMP, <<49>> >>, <<OAUTH_NONCE, <<110>> >> >>) }

InitResign ==
  /\ ServerInit
  /\ TextIdle
  /\ pct_input = <<>>
  /\ pct_output = None
  /\ extra_params \in ResignExtras
  /\ signed = None
  /\ resigned = None

\* A nonce kept from the call before.
fresh_nonce_Memoized(rnd, earlier) ==
  IF earlier # None THEN earlier[1].nonce ELSE hex_encode(rnd)

\* let nonce = { rand::thread_rng().fill(&mut bytes); hex::encode(bytes) }:
\* made inside every call from the bytes it draws, whatever came earlier.
fresh_nonce(rnd, earlier) == hex_encode(rnd)

\* SystemTime::now() ... as_secs().to_string(): read inside every call.
fresh_timestamp(now, earlier) == to_string(now)

\* oauth_header runs again on the same arguments: it draws and reads anew.
SignAgain ==
  /\ signed # None
  /\ resigned = None
  /\ \E rnd \in NonceBytes, now \in ClockSecs :
       resigned' =
         Some([rnd |-> rnd, now |-> now,
               out |-> oauth_header(signed[1].method, signed[1].url, extra_params,
                                    fresh_nonce(rnd, signed),
                                    fresh_timestamp(now, signed))])
  /\ UNCHANGED <<server_vars, pct_input, pct_output, extra_params, signed, text_vars>>

NextResign == Sign \/ SignAgain

SpecResign == InitResign /\ [][NextResign]_vars

(***************************************************************************)
(* Reading the signer's strings back: what a verifier sees in them.        *)
(***************************************************************************)
\* The pieces of str[lo..hi] between the occurrences of byte b.
RECURSIVE SplitRange(_, _, _, _)
SplitRange(str, b, lo, hi) ==
  IF lo > hi THEN << <<>> >>
  ELSE IF lo = hi THEN (IF str[lo] = b THEN << <<>>, <<>> >> ELSE << <<str[lo]>> >>)
  ELSE LET mid == (lo + hi) \div 2
           l == SplitRange(str, b, lo, mid)
           r == SplitRange(str, b, mid + 1, hi)
       IN  SubSeq(l, 1, Len(l) - 1) \o << l[Len(l)] \o r[1] >> \o Tail(r)

\* The pieces of str between the occurrences of byte b.
SplitOn(str, b) == SplitRange(str, b, 1, Len(str))

HexValue(d) ==
  IF d \in 48..57 THEN d - 48 ELSE IF d \in 65..70 THEN d - 55 ELSE d - 87

\* Percent-decoding of str[lo..hi]: every '%' opens an escape of two hex
\* digits, which are read with it.
RECURSIVE DecodeRange(_, _, _)
DecodeRange(str, lo, hi) ==
  IF lo > hi THEN <<>>
  ELSE IF lo = hi
    THEN IF (lo > 1 /\ str[lo - 1] = 37) \/ (lo > 2 /\ str[lo - 2] = 37) THEN <<>>
         ELSE IF str[lo] = 37
           THEN <<16 * HexValue(str[lo + 1]) + HexValue(str[lo + 2])>>
         ELSE <<str[lo]>>
  ELSE LET mid == (lo + hi) \div 2
       IN  DecodeRange(str, lo, mid) \o DecodeRange(str, mid + 1, hi)

PercentDecode(str) == DecodeRange(str, 1, Len(str))

\* The <<key, value>> pairs of a base string's parameter segment, in order.
SegmentPairs(base) ==
  LET pieces == SplitOn(PercentDecode(SplitOn(base, 38)[3]), 38)
  IN  [k \in 1..Len(pieces) |->
         LET kv == SplitOn(pieces[k], 61)
         IN  <<PercentDecode(kv[1]), PercentDecode(kv[2])>>]

\* The <<key, value>> pairs of a header, in order.
HeaderPairs(header) ==
  LET parts == SplitOn(SubSeq(header, Len(OAUTH_SCHEME) + 1, Len(header)), 44)
  IN  [k \in 1..Len(parts) |->
         LET part == IF k = 1 THEN parts[k] ELSE Tail(parts[k])
             kv == SplitOn(part, 61)
         IN  <<PercentDecode(kv[1]),
               PercentDecode(SubSeq(kv[2], 2, Len(kv[2]) - 1))>>]

Range(seq) == {seq[k] : k \in 1..Len(seq)}
KeysOf(pairs) == {e[1] : e \in Range(pairs)}

\* The six protocol parameters of a signing, as the set of their pairs.
FixedPairs(sig) ==
  { <<OAUTH_CONSUMER_KEY, Config.api_key>>, <<OAUTH_NONCE, sig.nonce>>,
    <<OAUTH_SIGNATURE_METHOD, HMAC_SHA1>>, <<OAUTH_TIMESTAMP, sig.timestamp>>,
    <<OAUTH_TOKEN, Config.access_token>>, <<OAUTH_VERSION, VERSION_1_0>> }

FixedKeys ==
  { OAUTH_CONSUMER_KEY, OAUTH_NONCE, OAUTH_SIGNATURE_METHOD, OAUTH_TIMESTAMP,
    OAUTH_TOKEN, OAUTH_VERSION }

\* The protocol parameters and the extras, an extra winning a shared key.
UnionPairs(sig, extra) ==
  Range(extra) \cup {p \in FixedPairs(sig) : p[1] \notin KeysOf(extra)}

(***************************************************************************)
(* C8.  pct_encode leaves only the unreserved characters unescaped.        *)
(***************************************************************************)
Unreserved == (65..90) \cup (97..122) \cup (48..57) \cup {45, 46, 95, 126}

\* What the claim asks of one byte.
EncodedAsClaimed(b) == IF b \in Unreserved THEN <<b>> ELSE PercentByte(b)

\* C8: for every input, the output is the input's bytes, each unreserved
\* byte as it is and every other byte as %XX in uppercase hex.
C8_OnlyUnreservedUnescaped ==
  pct_output # None =>
    LET bytes == Utf8Bytes(pct_input)
        want == [k \in 1..Len(bytes) |-> EncodedAsClaimed(bytes[k])]
    IN  pct_output[1] = Join(want, <<>>)

(***************************************************************************)
(* C9.  What the Authorization header holds.                               *)
(***************************************************************************)
\* C9 as claimed: for every extra-parameter mapping the header holds the six
\* protocol parameters and the signature and nothing else, and no pair the
\* caller supplied is in it.
C9_HeaderOnlyProtocolParams ==
  signed # None =>
    LET pairs == HeaderPairs(signed[1].header) IN
    /\ KeysOf(pairs) = FixedKeys \cup {OAUTH_SIGNATURE}
    /\ Len(pairs) = 7
    /\ Range(extra_params) \cap Range(pairs) = {}

\* C9 as amended: the header holds, once each, the parameters whose key
\* starts with "oauth_": the six protocol parameters (with the caller's value
\* on a shared key), the computed signature, and the caller's extras of such
\* a key; every other extra is absent from it, though every extra is in the
\* parameter segment of the base string.
C9_HeaderKeepsOauthPrefixed ==
  signed # None =>
    LET pairs == HeaderPairs(signed[1].header)
        all == UnionPairs(signed[1], extra_params)
        sigpair == <<OAUTH_SIGNATURE, signed[1].signature>>
    IN  /\ Range(pairs) =
             {p \in all : starts_with(p[1], OAUTH_PREFIX) /\ p[1] # OAUTH_SIGNATURE}
               \cup {sigpair}
        /\ Len(pairs) = Cardinality(Range(pairs))
        /\ \A e \in Range(extra_params) :
             ~starts_with(e[1], OAUTH_PREFIX) => e[1] \notin KeysOf(pairs)
        /\ Range(extra_params) \subseteq Range(SegmentPairs(signed[1].base_string))

\* A signing whose extras hold a key the header drops and one it keeps.
C9_Witness ==
  /\ signed # None
  /\ \E e \in Range(extra_params) : ~starts_with(e[1], OAUTH_PREFIX)
  /\ \E e \in Range(extra_params) :
       starts_with(e[1], OAUTH_PREFIX) /\ e[1] \notin FixedKeys \cup {OAUTH_SIGNATURE}

(***************************************************************************)
(* C10.  The parameter segment of the base string.                         *)
(***************************************************************************)
\* C10: the parameter segment lists the union of the protocol parameters and
\* the extras (the caller's value on a shared key), each key once, in
\* ascending byte order of the keys, whatever order the caller inserted in.
C10_SegmentSortedByKey ==
  signed # None =>
    LET pairs == SegmentPairs(signed[1].base_string) IN
    /\ Len(SplitOn(signed[1].base_string, 38)) = 3
    /\ \A i, j \in 1..Len(pairs) : i < j => StrLess(pairs[i][1], pairs[j][1])
    /\ Range(pairs) = UnionPairs(signed[1], extra_params)

\* A signing whose extras hold a key that sorts before every protocol key
\* and a key shared with a protocol parameter.
C10_Witness ==
  /\ signed # None
  /\ \E e \in Range(extra_params) : StrLess(e[1], OAUTH_CONSUMER_KEY)
  /\ \E e \in Range(extra_params) :
       e[1] = OAUTH_TOKEN /\ e[2] # Config.access_token

(***************************************************************************)
(* Reading a task's log and result back, for the properties of the chain.  *)
(***************************************************************************)
ChainOps == {"post_thread", "client_post_thread"}

ChainLen(t) == Len(call[t].tweets)

\* The chain of task t has come back from the loop of XClient::post_thread.
ChainRan(t) ==
  /\ call[t].op \in ChainOps
  /\ pc[t] = "done"
  /\ idx[t] >= 1

\* Positions of the log of t that hold an event of this kind for item i.
At(t, kind, i) ==
  {p \in DOMAIN log[t] : log[t][p].kind = kind /\ log[t][p].item = i}

\* Item i of t was created: its create-post response gave a post.
TweetOk(t, i) == \E p \in At(t, "tweet_resp", i) : log[t][p].ok

\* The identifier the service gave item i.
IdOf(t, i) ==
  LET p == CHOOSE q \in At(t, "tweet_resp", i) : log[t][q].ok IN log[t][p].id[1]

FailedItems(t) == {i \in 1..ChainLen(t) : ~TweetOk(t, i)}

FirstFailure(t) == CHOOSE k \in FailedItems(t) : \A j \in FailedItems(t) : k <= j

LengthErrors ==
  {"Thread must contain at least one tweet",
   "Thread exceeds maximum of {MAX_THREAD_LENGTH} tweets",
   "Thread cannot exceed 25 tweets"}

\* The failure of item k of t, as far as the log and the input tell it:
\* the very error of a local check, or the family of errors of the request
\* that failed.
IsFailureOf(t, k, e) ==
  LET item == call[t].tweets[k]
      v == validate_tweet_text(item.text)
  IN  IF ~v.ok THEN e = v.val
      ELSE IF item.image # None /\ ~upload_media_checks(item.image[1]).ok
        THEN e = upload_media_checks(item.image[1]).val
      ELSE IF At(t, "tweet", k) # {}
        THEN /\ \E p \in At(t, "tweet_resp", k) : ~log[t][p].ok
             /\ e \in {post_tweet_result(r, 0, "alice").val :
                         r \in {x \in Responses : ~post_tweet_result(x, 0, "alice").ok}}
      ELSE /\ \E p \in At(t, "upload_resp", k) : ~log[t][p].ok
           /\ e \in {upload_media_result(r, 0).val :
                       r \in {x \in Responses : ~upload_media_result(x, 0).ok}}

\* C1: when item k of a chain of n in 1..25 is the first to fail, the chain
\* stops there: nothing is sent for a later item, nothing at all follows a
\* failed request, and the result holds the posts of items 1..k-1 in order
\* and an error that names k (1-based) and n and carries the failure.
C1_StopsAtFirstFailure ==
  \A t \in Tasks :
    (ChainRan(t) /\ FailedItems(t) # {}) =>
      LET k == FirstFailure(t)
          r == ret[t][1]
      IN  /\ r.error # None
          /\ r.error[1].index = k
          /\ r.error[1].total = ChainLen(t)
          /\ IsFailureOf(t, k, r.error[1].cause)
          /\ Len(r.posted) = k - 1
          /\ \A j \in 1..(k - 1) :
               r.posted[j] = PostResult(IdOf(t, j), username[t][1])
          /\ \A p \in DOMAIN log[t] :
               /\ log[t][p].item <= k
               /\ ~log[t][p].ok => p = Len(log[t])

\* A chain of three whose second item failed after the first was posted.
C1_Witness ==
  \E t \in Tasks :
    /\ ChainRan(t)
    /\ ChainLen(t) = 3
    /\ FailedItems(t) # {}
    /\ FirstFailure(t) = 2
    /\ Len(ret[t][1].posted) = 1
    /\ ret[t][1].error # None

\* C2: the create-post requests of a chain go out one at a time in input
\* order; the first has no reply target, and every later one replies to the
\* post just created for the item before it.
C2_RepliesToPreviousPost ==
  \A t \in Tasks :
    call[t].op \in ChainOps =>
      \A p \in DOMAIN log[t] :
        /\ log[t][p].kind = "tweet" =>
             LET i == log[t][p].item IN
             /\ Cardinality({q \in 1..(p - 1) : log[t][q].kind = "tweet"}) = i - 1
             /\ i = 1 => log[t][p].reply = None
             /\ i > 1 =>
                  /\ \E q \in At(t, "tweet_resp", i - 1) : q < p /\ log[t][q].ok
                  /\ log[t][p].reply = Some(IdOf(t, i - 1))
        /\ (log[t][p].kind \in NetKinds /\ p < Len(log[t])) =>
             /\ log[t][p + 1].item = log[t][p].item
             /\ log[t][p + 1].kind \notin NetKinds \cup {"sleep"}

\* The third item of a chain is sent as a reply to the second.
C2_Witness ==
  \E t \in Tasks :
    /\ call[t].op \in ChainOps
    /\ At(t, "tweet", 3) # {}
    /\ \A p \in At(t, "tweet", 3) :
         log[t][p].reply = Some(IdOf(t, 2)) /\ IdOf(t, 2) # IdOf(t, 1)

\* C3: when every item of a chain of n in 1..25 is created, the result has
\* no error and n posts, in input order, each with the identifier the
\* service gave it and the URL built from it and the username.
C3_AllPostedInOrder ==
  \A t \in Tasks :
    (ChainRan(t) /\ FailedItems(t) = {}) =>
      LET r == ret[t][1] IN
      /\ r.error = None
      /\ r.total = ChainLen(t)
      /\ Len(r.posted) = ChainLen(t)
      /\ \A i \in 1..ChainLen(t) :
           r.posted[i] = PostResult(IdOf(t, i), username[t][1])

\* A chain of MAX_THREAD_LENGTH items, all created.
C3_Witness ==
  \E t \in Tasks :
    /\ ChainRan(t)
    /\ FailedItems(t) = {}
    /\ ChainLen(t) = MAX_THREAD_LENGTH
    /\ Len(ret[t][1].posted) = MAX_THREAD_LENGTH

NoNetworkCall(t) == \A p \in DOMAIN log[t] : log[t][p].kind \notin NetKinds

\* C4: a chain of 0 or of 26 items is turned away with an error and no
\* post before any request is sent, whether it comes through the tool or
\* straight to the client; a chain of 25 items is not turned away for its
\* length.
C4_LengthLimits ==
  \A t \in Tasks :
    call[t].op \in ChainOps =>
      /\ (ChainLen(t) = 0 \/ ChainLen(t) > 25) =>
           /\ NoNetworkCall(t)
           /\ pc[t] \in {"pth_begin", "done"}
           /\ pc[t] = "done" =>
                /\ ret[t][1].error # None
                /\ ret[t][1].error[1].kind \in LengthErrors
                /\ ret[t][1].posted = <<>>
      /\ (ChainLen(t) = 25 /\ pc[t] = "done" /\ ret[t][1].error # None) =>
           /\ ret[t][1].error[1].kind \notin LengthErrors
           /\ idx[t] >= 1 \/ ~NoNetworkCall(t)

\* A chain of 26 items sent straight to the client has come back.
C4_Witness ==
  \E t \in Tasks :
    /\ call[t].op = "client_post_thread"
    /\ ChainLen(t) = 26
    /\ pc[t] = "done"
    /\ ret[t][1].error # None
    /\ NoNetworkCall(t)

\* C5: the post-one-item operation called with empty or whitespace-only
\* text sends no request of any kind, whatever the cache holds and whether
\* or not an image is attached, and comes back with the error of the text.
C5_BlankTextNoNetworkCall ==
  \A t \in Tasks :
    (call[t].op = "post_tweet" /\ trim_is_empty(call[t].tweets[1].text)) =>
      /\ NoNetworkCall(t)
      /\ pc[t] = "done" =>
           /\ ret[t][1].kind = "error"
           /\ ret[t][1].error = Some(Error("Tweet text cannot be empty"))

(***************************************************************************)
(* The identity cache, as the operations that need the username see it.    *)
(***************************************************************************)
\* The operations that go through ensure_username.
Resolving(t) == call[t].op \in {"post_tweet", "post_thread"}

Fetched(t) == At(t, "get_me", 0) # {}

FetchOk(t) == \E p \in At(t, "get_me_resp", 0) : log[t][p].ok

\* The fetched username has been written to the cache.
Stored(t) == FetchOk(t) /\ pc[t] \notin {"eu_lock2", "eu_store"}

\* The operation has read the cache.
PastRead(t) ==
  /\ pc[t] \notin {"idle", "eu_lock", "eu_read"}
  /\ ~(pc[t] = "done" /\ ret[t][1].kind = "invalid_params")

CacheAsSeenBy(t) ==
  Resolving(t) =>
    /\ Cardinality(At(t, "get_me", 0)) <= 1
    /\ (Fetched(t) /\ ~Stored(t)) => cached_username = None
    /\ (Fetched(t) /\ Stored(t)) =>
         cached_username # None /\ cached_username = username[t]
    /\ (PastRead(t) /\ ~Fetched(t)) =>
         IF pc[t] = "me_send"
           THEN cached_username = None
           ELSE cached_username # None /\ username[t] = cached_username

\* C6: with requests served one after another, the cache once filled stays
\* filled; an operation that needs the username fetches it only when the
\* cache is empty, at most once, and is otherwise answered from the cache
\* without an identity request; a fetch that fails leaves the cache empty
\* and one that succeeds leaves the fetched username in it, so the request
\* after a failure fetches again and the request after a success does not.
C6_CacheHitAndRetry ==
  [][ /\ cached_username # None => cached_username' # None
      /\ \A t \in Tasks : CacheAsSeenBy(t)' ]_vars

\* An operation was answered from the cache without an identity request.
C6_Witness ==
  \E t \in Tasks :
    /\ Resolving(t)
    /\ pc[t] = "done"
    /\ username[t] # None
    /\ username[t] = cached_username
    /\ ~Fetched(t)
    /\ ~NoNetworkCall(t)

InFlight(t) == pc[t] \in {"me_wait", "up_wait", "tw_wait"}

\* C7: under every interleaving, a task holds the lock of the cache only
\* at the read or the write of the cached value, never while a request of
\* its own is in flight or while it pauses; a task waiting for the lock is
\* therefore never waiting on a request.
C7_LockNotHeldAcrossNetwork ==
  \A t \in Tasks :
    /\ lock = Some(t) => pc[t] \in {"eu_read", "eu_store", "gm_store"}
    /\ (InFlight(t) \/ pc[t] \in {"me_send", "pth_sleep"}) => lock # Some(t)
    /\ (pc[t] \in {"eu_lock", "eu_lock2", "gm_lock"} /\ lock # None) =>
         \E u \in Tasks \ {t} :
           lock = Some(u) /\ pc[u] \in {"eu_read", "eu_store", "gm_store"}

\* One task is at its cache access, holding the lock, while the identity
\* fetch of another is in flight.
C7_Witness ==
  \E t, u \in Tasks :
    /\ t # u
    /\ pc[u] = "me_wait"
    /\ lock = Some(t)
    /\ pc[t] \in {"eu_read", "eu_store", "gm_store"}


(***************************************************************************)
(* C11.  The length limit of a text counts characters.                     *)
(***************************************************************************)
\* C11: a text that is not blank is accepted when it has at most 280
\* Unicode scalar values, however many bytes they take, and is rejected when
\* it has 281 or more, with the error that carries its count of scalar
\* values and the limit 280.
C11_LimitCountsScalarValues ==
  text_result # None =>
    LET n == Len(text_input)
        r == text_result[1]
    IN  ~trim_is_empty(text_input) =>
          /\ n <= 280 => r.ok
          /\ n >= 281 =>
               /\ ~r.ok
               /\ r.val.kind = "Tweet text is {} characters (max {})"
               /\ r.val.count = n
               /\ r.val.limit = 280

\* A text of 280 four-byte characters has been accepted.
C11_Witness ==
  /\ text_result # None
  /\ Len(text_input) = 280
  /\ \A k \in 1..280 : text_input[k] = 128512
  /\ text_result[1].ok


(***************************************************************************)
(* C12.  An image of an unsupported format.                                *)
(***************************************************************************)
SupportedExts == {"jpg", "jpeg", "png", "gif", "webp"}

PostingOps == {"post_tweet", "post_thread", "client_post_thread"}

\* The operation of t came to item i: its identity was resolved and every
\* earlier item of its chain was posted.
Reached(t, i) ==
  /\ pc[t] = "done"
  /\ call[t].op \in PostingOps
  /\ Fetched(t) => FetchOk(t)
  /\ call[t].op \in ChainOps => (ChainRan(t) /\ \A j \in 1..(i - 1) : TweetOk(t, j))

\* The failure the operation of t reported for its item i, if it did.
ItemFailure(t, i) ==
  IF pc[t] # "done" \/ ret[t][1].error = None \/ (Fetched(t) /\ ~FetchOk(t)) THEN None
  ELSE IF call[t].op = "post_tweet" THEN ret[t][1].error
  ELSE IF ret[t][1].error[1].kind \in LengthErrors THEN None
  ELSE IF ret[t][1].error[1].index = i THEN Some(ret[t][1].error[1].cause)
  ELSE None

\* C12: for an image whose extension, in lower case, is none of jpg, jpeg,
\* png, gif, webp, neither an upload request nor a create-post request is
\* sent for its item; when the file exists, its metadata can be read, its
\* size is within the limit, the text is valid and the operation came to
\* the item, the operation ends with the error that names the
\* extension and the allowed formats.
C12_UnsupportedFormatRejected ==
  \A t \in Tasks :
    call[t].op \in PostingOps =>
      \A i \in 1..ChainLen(t) :
        LET item == call[t].tweets[i] IN
        (item.image # None /\ to_lowercase(item.image[1].ext) \notin SupportedExts) =>
          /\ At(t, "upload", i) = {}
          /\ At(t, "tweet", i) = {}
          /\ ( /\ Reached(t, i)
               /\ validate_tweet_text(item.text).ok
               /\ item.image[1].exists
               /\ item.image[1].meta
               /\ item.image[1].len <= MAX_MEDIA_SIZE ) =>
               /\ ItemFailure(t, i) # None
               /\ ItemFailure(t, i)[1].kind =
                    "Unsupported image format '.{ext}'. Allowed: jpeg, png, gif, webp"
               /\ ItemFailure(t, i)[1].body = to_lowercase(item.image[1].ext)

\* A post with a .bmp image has been turned away for its format.
C12_Witness ==
  \E t \in Tasks :
    /\ call[t].op = "post_tweet"
    /\ call[t].tweets[1].image = Some(FileBmp)
    /\ pc[t] = "done"
    /\ ItemFailure(t, 1) # None
    /\ ItemFailure(t, 1)[1].body = "bmp"
    /\ At(t, "upload", 1) = {}


(***************************************************************************)
(* C13.  The reset time of a 429.                                          *)
(***************************************************************************)
\* The error the operation of t ended with: for a chain, the failure of the
\* item inside the chain's error.
FinalError(t) ==
  LET e == ret[t][1].error[1] IN
  IF "cause" \in DOMAIN e THEN e.cause ELSE e

\* The last entry of the log of t is a response of this kind.
EndedOn(t, kind) ==
  /\ pc[t] = "done"
  /\ log[t] # <<>>
  /\ log[t][Len(log[t])].kind = kind
  /\ ~log[t][Len(log[t])].ok

LastResponse(t) == log[t][Len(log[t])].resp[1]

\* C13: an operation that ends on a 429 response carrying the header
\* x-rate-limit-reset, from whichever of the three endpoints, returns an
\* error that holds the header's value.
C13_ResetValueInError ==
  \A t \in Tasks :
    \A kind \in {"tweet_resp", "upload_resp", "get_me_resp"} :
      ( /\ EndedOn(t, kind)
        /\ LastResponse(t).transport
        /\ LastResponse(t).status = 429
        /\ LastResponse(t).reset # None ) =>
        /\ ret[t][1].error # None
        /\ FinalError(t).reset = LastResponse(t).reset


(***************************************************************************)
(* C14.  What the post_thread tool reports.                                *)
(***************************************************************************)
\* C14: the post_thread tool reports a chain as an error whenever an item
\* failed, whether none, some or all but one of the items were posted, and
\* as a success only when every item was posted; its output lists, under
\* the count of posts and of items, the id and URL of every post made
\* before the failure, and then the error.
C14_AnyFailureIsAnError ==
  \A t \in Tasks :
    (call[t].op = "post_thread" /\ ChainRan(t)) =>
      LET r == ret[t][1]
          n == ChainLen(t)
          made == {i \in 1..n : TweetOk(t, i)}
      IN  /\ r.error # None <=> FailedItems(t) # {}
          /\ r.error # None => r.kind = "error"
          /\ r.kind = "success" <=> made = 1..n
          /\ r.kind \in {"error", "success"}
          /\ r.output # None
          /\ r.output[1].error = r.error
          /\ Len(r.output[1].lines) = Cardinality(made)
          /\ \A i \in made :
               r.output[1].lines[i] =
                 <<i, IdOf(t, i), PostResult(IdOf(t, i), username[t][1]).url>>
          /\ made # {} => r.output[1].header = Some(<<Cardinality(made), n>>)

\* The tool has reported a chain of three with its last item failed.
C14_Witness ==
  \E t \in Tasks :
    /\ call[t].op = "post_thread"
    /\ ChainRan(t)
    /\ ChainLen(t) = 3
    /\ TweetOk(t, 1) /\ TweetOk(t, 2) /\ ~TweetOk(t, 3)
    /\ ret[t][1].kind = "error"
    /\ Len(ret[t][1].output[1].lines) = 2


(***************************************************************************)
(* C15.  No request is sent twice.                                         *)
(***************************************************************************)
\* C15: an operation sends at most one identity request, and for each of
\* its items at most one upload request and at most one create-post
\* request; a request that fails is the last thing the operation does: it
\* ends there with an error.
C15_NoRetry ==
  \A t \in Tasks :
    /\ Cardinality(At(t, "get_me", 0)) <= 1
    /\ \A p \in DOMAIN log[t] :
         /\ log[t][p].kind \in {"upload", "tweet", "sleep"} =>
              log[t][p].item \in 1..ChainLen(t)
         /\ log[t][p].kind \in NetKinds =>
              \A q \in DOMAIN log[t] :
                (log[t][q].kind = log[t][p].kind /\ log[t][q].item = log[t][p].item)
                  => q = p
         /\ ~log[t][p].ok =>
              /\ p = Len(log[t])
              /\ pc[t] = "done"
              /\ ret[t][1].error # None

\* A post with an image has ended on a failed create-post request, after
\* one identity request and one upload.
C15_Witness ==
  \E t \in Tasks :
    /\ call[t].op = "post_tweet"
    /\ EndedOn(t, "tweet_resp")
    /\ Cardinality(At(t, "get_me", 0)) = 1
    /\ Cardinality(At(t, "upload", 1)) = 1
    /\ Cardinality(At(t, "tweet", 1)) = 1


(***************************************************************************)
(* C16.  A failed identity fetch and the cache.                            *)
(***************************************************************************)
\* C16: the step in which an identity fetch fails, whether a post operation
\* or the get_me tool sent it and whether the cache was empty or filled,
\* leaves the cached value as it was; the cached value changes only in the
\* store of an operation whose fetch succeeded, to the username fetched.
C16_FailedFetchKeepsCache ==
  [][ /\ \A t \in Tasks :
           (pc[t] = "me_wait" /\ pc'[t] = "done") =>
             /\ EndedOn(t, "get_me_resp")'
             /\ cached_username' = cached_username
      /\ cached_username' # cached_username =>
           \E t \in Tasks :
             /\ FetchOk(t)
             /\ pc[t] \in {"eu_store", "gm_store"}
             /\ username[t] # None
             /\ cached_username' = username[t] ]_vars

\* The get_me tool has ended on a failed fetch with the cache filled.
C16_Witness ==
  \E t \in Tasks :
    /\ call[t].op = "get_me"
    /\ EndedOn(t, "get_me_resp")
    /\ cached_username # None


(***************************************************************************)
(* C17.  Two signings in succession.                                       *)
(***************************************************************************)
\* The value a signing gave to key k in the parameters it signed.
SignedValue(out, k) ==
  LET e == CHOOSE x \in Range(out.params) : x[1] = k IN e[2]

UnsupportedFormat == "Unsupported image format '.{ext}'. Allowed: jpeg, png, gif, webp"

\* C18: for an item with valid text and an image, the checks run in the
\* order existence, size, extension: a missing file gives "File not found"
\* with its path, and a file there with more than 5 MiB gives "File too
\* large" with its size, whatever the extension; "File too large" is given
\* only above 5 MiB and "Unsupported image format" only for a file that is
\* there within 5 MiB; in the three cases no upload request is sent.
C18_ValidationOrder ==
  \A t \in Tasks :
    call[t].op \in PostingOps =>
      \A i \in 1..ChainLen(t) :
        LET item == call[t].tweets[i] IN
        (item.image # None /\ validate_tweet_text(item.text).ok) =>
          LET f == item.image[1]
              e == ItemFailure(t, i)
          IN  /\ ( \/ ~f.exists
                   \/ f.meta /\ f.len > 5 * 1024 * 1024
                   \/ to_lowercase(f.ext) \notin SupportedExts ) => At(t, "upload", i) = {}
              /\ Reached(t, i) =>
                   /\ ~f.exists =>
                        /\ e # None
                        /\ e[1].kind = "File not found: {path}"
                        /\ e[1].body = f.path
                   /\ (f.exists /\ f.meta /\ f.len > 5 * 1024 * 1024) =>
                        /\ e # None
                        /\ e[1].kind = "File too large: {} bytes (max {}MB)"
                        /\ e[1].count = f.len
                        /\ e[1].limit = 5
                   /\ (e # None /\ e[1].kind = "File too large: {} bytes (max {}MB)") =>
                        f.exists /\ f.meta /\ f.len > 5 * 1024 * 1024
                   /\ (e # None /\ e[1].kind = UnsupportedFormat) =>
                        f.exists /\ f.meta /\ f.len <= 5 * 1024 * 1024

\* The second item of a chain names a missing .bmp file and the chain ended
\* there with "File not found".
C18_Witness ==
  \E t \in Tasks :
    /\ call[t].op \in ChainOps
    /\ ChainLen(t) >= 2
    /\ Reached(t, 2)
    /\ call[t].tweets[2].image # None
    /\ ~call[t].tweets[2].image[1].exists
    /\ to_lowercase(call[t].tweets[2].image[1].ext) \notin SupportedExts
    /\ ItemFailure(t, 2) # None
    /\ ItemFailure(t, 2)[1].kind = "File not found: {path}"


(***************************************************************************)
(* C19.  The upload of a single post.                                      *)
(***************************************************************************)
\* The three checks on the file pass: it is there, within the size limit,
\* of a supported format.
MediaValid(f) ==
  /\ f.exists
  /\ f.meta
  /\ f.len <= MAX_MEDIA_SIZE
  /\ to_lowercase(f.ext) \in SupportedExts

\* The post of item i of t with the upload request sent exactly when
\* sends(item) holds: at most one upload, answered before the create-post
\* request; no create-post request after a failed upload; the create-post
\* body with the one handle of that upload, or with no media field when
\* the item has no image.
UploadOfPost(t, i, sends(_)) ==
  LET item == call[t].tweets[i] IN
  /\ At(t, "upload", i) # {} => sends(item)
  /\ (Reached(t, i) /\ sends(item)) => At(t, "upload", i) # {}
  /\ Cardinality(At(t, "upload", i)) <= 1
  /\ (\E q \in At(t, "upload_resp", i) : ~log[t][q].ok) => At(t, "tweet", i) = {}
  /\ \A p \in At(t, "tweet", i) :
       IF item.image = None
         THEN At(t, "upload", i) = {} /\ log[t][p].media = None
         ELSE \E u \in At(t, "upload", i), q \in At(t, "upload_resp", i) :
                /\ u < q /\ q < p
                /\ log[t][q].ok
                /\ log[t][p].media = Some(<<log[t][q].id[1]>>)

ValidatedImage(item) ==
  /\ item.image # None
  /\ validate_tweet_text(item.text).ok
  /\ MediaValid(item.image[1])

ValidatedReadableImage(item) == ValidatedImage(item) /\ item.image[1].readable

\* C19 as stated: in every post the upload request is sent if and only if
\* an image is given and the text and the file pass validation; the upload
\* is answered before the create-post request is sent; a failed upload is
\* followed by no create-post request; the create-post body holds exactly
\* the handle the upload returned, and no media field without an image.
C19_UploadIffValidated ==
  \A t \in Tasks :
    call[t].op \in PostingOps =>
      \A i \in 1..ChainLen(t) : UploadOfPost(t, i, ValidatedImage)

\* C19, amended: the same, the upload request being sent if and only if an
\* image is given, the text and the file pass validation and the file can
\* be read.
C19_UploadIffValidatedAndRead ==
  \A t \in Tasks :
    call[t].op \in PostingOps =>
      \A i \in 1..ChainLen(t) : UploadOfPost(t, i, ValidatedReadableImage)

\* A post with an image went through: upload, its answer, then the
\* create-post request with the handle.
C19_Witness ==
  \E t \in Tasks :
    /\ call[t].op = "post_tweet"
    /\ pc[t] = "done"
    /\ call[t].tweets[1].image # None
    /\ TweetOk(t, 1)
    /\ \E p \in At(t, "tweet", 1), q \in At(t, "upload_resp", 1) :
         q < p /\ log[t][p].media = Some(<<log[t][q].id[1]>>)


(***************************************************************************)
(* C20.  Responses of create-post and upload-media outside 2xx.            *)
(***************************************************************************)
\* The answers of t's requests that came with status 401.
Unauthorized(t) ==
  {p \in DOMAIN log[t] :
     /\ log[t][p].resp # None
     /\ log[t][p].resp[1].transport
     /\ log[t][p].resp[1].status = 401}

RateLimitError(kind) ==
  IF kind = "tweet_resp"
    THEN "Rate limited (429). {}Try again later. Free tier allows ~17 tweets/24h."
    ELSE "Media upload rate limited (429). {}Media uploads may have separate rate limits."

StatusError(kind) ==
  IF kind = "tweet_resp" THEN "X API error ({status}): {body}"
                         ELSE "Media upload error ({status}): {body}"

\* C20: of every answer to a create-post or upload-media request, a result
\* (post or media handle) is read only when the status is in 200..299 and
\* the body parses; an answer with any other status gives no result and,
\* being the last thing the operation did, ends it with an error: for 429
\* the rate-limit error of the endpoint with the reset time of the answer,
\* for any other status (401 included) the error with that status and the
\* body of the answer; and one credential diagnostic was emitted for each
\* 401 received.
C20_NonSuccessIsError ==
  \A t \in Tasks :
    /\ diag[t] = Cardinality(Unauthorized(t))
    /\ \A p \in DOMAIN log[t] :
         log[t][p].kind \in {"tweet_resp", "upload_resp"} =>
           LET r == log[t][p].resp[1]
               twoxx == r.transport /\ r.status >= 200 /\ r.status <= 299
           IN  /\ log[t][p].ok => (twoxx /\ r.parses /\ log[t][p].id # None)
               /\ ~log[t][p].ok => log[t][p].id = None
               /\ (r.transport /\ ~twoxx) =>
                    /\ ~log[t][p].ok
                    /\ p = Len(log[t])
                    /\ pc[t] = "done" =>
                         /\ ret[t][1].error # None
                         /\ call[t].op # "client_post_thread" => ret[t][1].kind = "error"
                         /\ FinalError(t).status = r.status
                         /\ IF r.status = 429
                              THEN /\ FinalError(t).kind = RateLimitError(log[t][p].kind)
                                   /\ FinalError(t).reset = r.reset
                              ELSE /\ FinalError(t).kind = StatusError(log[t][p].kind)
                                   /\ FinalError(t).body = r.body

\* A post ended on a 401 to its create-post request: the diagnostic was
\* emitted and the caller has the error with the status.
C20_Witness ==
  \E t \in Tasks :
    /\ EndedOn(t, "tweet_resp")
    /\ LastResponse(t).status = 401
    /\ diag[t] = 1
    /\ ret[t][1].error # None
    /\ FinalError(t).status = 401


(***************************************************************************)
(* C21.  The pauses of a chain.                                            *)
(***************************************************************************)
\* The pauses in the log of t.
Pauses(t) == {p \in DOMAIN log[t] : log[t][p].kind = "sleep"}

\* The chain of t has taken up item i: it is done, or at a later item, or
\* past the pause of item i.
TakenUp(t, i) ==
  \/ pc[t] = "done"
  \/ idx[t] > i
  \/ idx[t] = i /\ pc[t] # "pth_sleep"

\* C21: in a chain there is no pause before item 1; before item i > 1 there
\* is exactly one pause, right after the answer that created item i-1 and
\* before anything is sent for item i, and only when item i-1 was created;
\* no pause follows the last item or a failed request; a chain of n items
\* all created has n-1 pauses; and every request of the chain is answered
\* before the next request or pause, so no two posts are in flight at once.
C21_PauseBetweenPosts ==
  \A t \in Tasks :
    call[t].op \in ChainOps =>
      LET n == ChainLen(t) IN
      /\ \A p \in Pauses(t) :
           LET i == log[t][p].item IN
           /\ i >= 2 /\ i <= n
           /\ p > 1
           /\ log[t][p - 1].kind = "tweet_resp"
           /\ log[t][p - 1].item = i - 1
           /\ log[t][p - 1].ok
           /\ \A q \in DOMAIN log[t] : (log[t][q].item = i /\ q # p) => q > p
      /\ \A i \in 1..n :
           Cardinality(At(t, "sleep", i)) =
             IF i >= 2 /\ TweetOk(t, i - 1) /\ TakenUp(t, i) THEN 1 ELSE 0
      /\ \A p \in DOMAIN log[t] :
           /\ ~log[t][p].ok => p = Len(log[t])
           /\ (log[t][p].kind \in NetKinds /\ p < Len(log[t])) =>
                /\ log[t][p + 1].resp # None
                /\ log[t][p + 1].item = log[t][p].item
      /\ (ChainRan(t) /\ FailedItems(t) = {}) =>
           /\ Cardinality(Pauses(t)) = n - 1
           /\ log[t][Len(log[t])].kind = "tweet_resp"

\* A chain of three, all created, has come back with two pauses.
C21_Witness ==
  \E t \in Tasks :
    /\ ChainRan(t)
    /\ ChainLen(t) = 3
    /\ FailedItems(t) = {}
    /\ Cardinality(Pauses(t)) = 2


(***************************************************************************)
(* C22.  The cache under concurrent operations.                            *)
(***************************************************************************)
\* The task has written the username it fetched to the cache.
HasWritten(t) ==
  /\ FetchOk(t)
  /\ pc[t] \notin {"me_wait", "eu_lock2", "eu_store", "gm_lock", "gm_store"}

WrittenNames == {username[t][1] : t \in {u \in Tasks : HasWritten(u)}}

\* The cache is empty until a fetched username is written and holds a
\* written one from then on.
CacheIsAWrittenName ==
  /\ cached_username = None <=> WrittenNames = {}
  /\ cached_username # None => cached_username[1] \in WrittenNames

\* Two operations that both missed the cache and both fetched with success.
BothMissed(a, b) ==
  /\ a # b
  /\ Resolving(a) /\ Resolving(b)
  /\ FetchOk(a) /\ FetchOk(b)

\* C22 as stated: under every interleaving the cache is empty or holds a
\* username a successful fetch returned and is not emptied once filled; and
\* two operations that both missed and fetched write the same value.
C22_MissesWriteSameValue ==
  /\ CacheIsAWrittenName
  /\ \A a, b \in Tasks : BothMissed(a, b) => username[a] = username[b]

\* C22, amended: under every interleaving the cache is empty or holds a
\* username a successful fetch returned and is not emptied once filled; two
\* operations that both missed and fetched each write the username of
\* their own fetch, and when the fetches returned the same username and no
\* other name was written, the cache holds it after either write, whatever
\* the order.
C22_MissesWriteOwnFetch ==
  /\ CacheIsAWrittenName
  /\ \A a, b \in Tasks :
       (BothMissed(a, b) /\ username[a] = username[b]
          /\ (HasWritten(a) \/ HasWritten(b))
          /\ WrittenNames \subseteq {username[a][1]}) =>
         cached_username = username[a]
  /\ \A a \in Tasks :
       (pc[a] \in {"eu_store", "gm_store"} /\ lock = Some(a)) =>
         /\ FetchOk(a)
         /\ CacheWrite(username[a][1]) = username[a]

\* Two operations both missed, both fetched the same username and both
\* wrote it.
C22_Witness ==
  \E a, b \in Tasks :
    /\ BothMissed(a, b)
    /\ HasWritten(a) /\ HasWritten(b)
    /\ username[a] = username[b]
    /\ cached_username = username[a]


(***************************************************************************)
(* C23.  The username of the posting tools.                                *)
(***************************************************************************)
\* The requests of t that post: uploads and create-post requests.
PostingRequests(t) ==
  {p \in DOMAIN log[t] : log[t][p].kind \in {"upload", "tweet"}}

\* The state part: nothing is posted before the username is there, a failed
\* fetch ends the operation with its error and no posting request, and
\* every post made has the URL of the operation's username.
UsernameBeforePosting ==
  \A t \in Tasks :
    Resolving(t) =>
      /\ PostingRequests(t) # {} =>
           /\ username[t] # None
           /\ Fetched(t) => \E q \in At(t, "get_me_resp", 0) :
                              log[t][q].ok /\ \A p \in PostingRequests(t) : q < p
      /\ (Fetched(t) /\ ~FetchOk(t) /\ pc[t] = "done") =>
           /\ ret[t][1].kind = "error"
           /\ ret[t][1].error = Some(get_me_result(LastResponse(t), "alice").val)
           /\ ret[t][1].posted = <<>>
           /\ PostingRequests(t) = {}
           /\ log[t][Len(log[t])].kind = "get_me_resp"
      /\ \A j \in DOMAIN posted[t] :
           posted[t][j].url = <<"https://x.com/", username[t][1], "/status/",
                                posted[t][j].tweet_id>>
      /\ pc[t] = "done" =>
           \A j \in DOMAIN ret[t][1].posted :
             ret[t][1].posted[j].url = <<"https://x.com/", username[t][1], "/status/",
                                         ret[t][1].posted[j].tweet_id>>

\* The step part: the username an operation has resolved stays what it is
\* to the operation's end, whatever becomes of the cache.
UsernameKept ==
  \A t \in Tasks :
    (Resolving(t) /\ username[t] # None) => username'[t] = username[t]

\* C23: the tools post_tweet and post_thread resolve the username before
\* any upload or create-post request; when the cache is empty and the fetch
\* fails the operation ends with that error as an error result and no such
\* request; the URL of every post of an operation is built from the one
\* username the operation resolved, which does not change during it.
C23_UsernameResolvedFirst == []UsernameBeforePosting /\ [][UsernameKept]_vars

\* A chain of two was posted under the username it resolved while another
\* operation has since put a different one into the cache.
C23_Witness ==
  \E t \in Tasks :
    /\ call[t].op = "post_thread"
    /\ pc[t] = "done"
    /\ Len(ret[t][1].posted) = 2
    /\ cached_username # None
    /\ cached_username # username[t]
    /\ ret[t][1].posted[2].url[2] = username[t][1]

=============================================================================
